---- MODULE Spec2Model ----
(***************************************************************************)
(* Freehand drawing overlay of react-pdf-viewer: the PdfWriter component.  *)
(* Two copies of the component exist, packages/core/src/extra/PdfWriter    *)
(* (window-scroll based translation) and unnamed/part_000 (bounding-box    *)
(* based translation).  The variable `variant` says which copy runs.       *)
(*                                                                         *)
(* React state lives in the variables named after the useState hooks.      *)
(* Event handlers are closures created by the last render: what they read  *)
(* directly (pathCoordinates, currentPath, drawingPaths, ...) comes from   *)
(* `rendered`; what they pass to a functional updater (prev => ...) is     *)
(* applied to the live hook state.                                         *)
(***************************************************************************)
EXTENDS Integers, Sequences, FiniteSets, TLC

VARIABLES
    variant,          \* which copy of the component is mounted
    writing,          \* the `writing` prop handed down by the parent
    scrollY,          \* window.scrollY
    rectDims,         \* useState: bounding box measured by the mount effect
    scrollPosition,   \* useState (PdfWriter.tsx only)
    drawingPaths,     \* useState: committed strokes
    currentPath,      \* useState: path string of the stroke in progress
    undoHistory,      \* useState: stack of stroke-list snapshots
    redoHistory,      \* useState: stack of stroke-list snapshots
    selectedColor,    \* useState: palette entry
    pathCoordinates,  \* useState: sample buffer of the stroke in progress
    rendered,         \* values captured by the closures of the last render
    trip              \* observer: progress of a stroke / undo / redo round trip

hooks == <<rectDims, scrollPosition, drawingPaths, currentPath, undoHistory,
           redoHistory, selectedColor, pathCoordinates>>
env == <<variant, writing, scrollY>>
vars == <<variant, writing, scrollY, rectDims, scrollPosition, drawingPaths,
          currentPath, undoHistory, redoHistory, selectedColor,
          pathCoordinates, rendered, trip>>

----------------------------------------------------------------------------
(* Bounds of the exploration *)

\* cap on the sample buffer in the drawing specification
MaxPts == 4
\* cap on the sample buffer in the history specification
HistPts == 2
\* cap on committed strokes and on history depth in the history specification
MaxCommits == 2

----------------------------------------------------------------------------
(* Constants of the program and of its surroundings *)

\* null (no bounding box yet) and undefined (array index out of range)
Null == [null |-> TRUE]
Undefined == <<>>
Variants == {"PdfWriter", "part_000"}

colors ==
    << [name |-> "Black",  code |-> "black"],
       [name |-> "Yellow", code |-> "yellow"],
       [name |-> "Red",    code |-> "red"],
       [name |-> "Blue",   code |-> "blue"],
       [name |-> "Green",  code |-> "green"] >>

Palette == {colors[i] : i \in 1..Len(colors)}
\* the palette entries the colour picker input is drawn from
ColorInputs == {colors[1], colors[3]}

\* drawingRef.current.offsetWidth / offsetHeight
offsetWidth == 1
offsetHeight == 1

\* viewport coordinates of pointer events, bounding boxes, scroll offsets
\* (HistXs: the pointer positions of the history specification)
ClientXs == {0, 1, 2}
HistXs == {0, 2}
ClientYs == {0}
Rects == {[left |-> 0, top |-> 0], [left |-> 1, top |-> 1]}
ScrollYs == {0, 1}

----------------------------------------------------------------------------
(* Path strings.  A path string is modelled by the sequence of its         *)
(* commands; '' is the empty sequence and string concatenation is \o.      *)
(* "M x y" is MoveTo(<<x, y>>); "C a,b c,d x,y " is a record holding the    *)
(* two control points and the end point.  Control points are kept in       *)
(* fifths of a pixel (the smoothing factor is 0.2), as exact values.       *)

MoveTo(p) == [op |-> "M", pt |-> p]

\* a[i] of a JavaScript array: undefined outside 0 .. length-1
At(a, i) == IF i \in 0..(Len(a) - 1) THEN a[i + 1] ELSE Undefined

\* line(pointA, pointB): length*cos(angle) and length*sin(angle), i.e. the
\* vector from pointA to pointB
line(pointA, pointB) == <<pointB[1] - pointA[1], pointB[2] - pointA[2]>>

\* controlPoint(current, previous, next, reverse), times 5
controlPoint(current, previous, next, reverse) ==
    LET p == IF previous = Undefined THEN current ELSE previous
        n == IF next = Undefined THEN current ELSE next
        o == line(p, n)
        sgn == IF reverse THEN -1 ELSE 1
    IN  <<5 * current[1] + sgn * o[1], 5 * current[2] + sgn * o[2]>>

bezierCommandLineTo(point, i, a) ==
    [op  |-> "L",
     cps |-> controlPoint(At(a, i - 1), At(a, i - 2), point, FALSE),
     cpe |-> controlPoint(point, At(a, i - 1), At(a, i + 1), TRUE),
     pt  |-> point]

bezierCommand(point, i, a) ==
    [op  |-> "C",
     cps |-> controlPoint(At(a, i - 1), At(a, i - 2), point, FALSE),
     cpe |-> controlPoint(point, At(a, i - 1), At(a, i + 1), TRUE),
     pt  |-> point]

----------------------------------------------------------------------------
(* Coordinate translation *)

TranslateDown(cx, cy) ==
    IF variant = "PdfWriter"
    THEN <<cx, cy + scrollY>>
    ELSE IF rendered.rectDims # Null
         THEN <<cx - rendered.rectDims.left, cy - rendered.rectDims.top>>
         ELSE <<cx, cy>>

TranslateMove(cx, cy) ==
    IF variant = "PdfWriter"
    THEN IF rendered.rectDims # Null
         THEN <<cx - rendered.rectDims.left,
                cy + scrollY + rendered.rectDims.top>>
         ELSE <<cx, cy + scrollY>>
    ELSE IF rendered.rectDims # Null
         THEN <<cx - rendered.rectDims.left, cy - rendered.rectDims.top>>
         ELSE <<cx, cy>>

InBoundsNoRightEdge(p) ==
    /\ p[1] >= 0
    /\ p[2] >= 0
    /\ p[2] <= offsetHeight

InBounds(p) ==
    /\ p[1] >= 0
    /\ p[2] >= 0
    /\ p[1] <= offsetWidth
    /\ p[2] <= offsetHeight

----------------------------------------------------------------------------
(* What a render captures *)

Snapshot ==
    [writing         |-> writing,
     rectDims        |-> rectDims,
     drawingPaths    |-> drawingPaths,
     currentPath     |-> currentPath,
     undoHistory     |-> undoHistory,
     redoHistory     |-> redoHistory,
     selectedColor   |-> selectedColor,
     pathCoordinates |-> pathCoordinates]

\* prevHistory.slice(0, -1)
SliceLast(h) == IF h = <<>> THEN <<>> ELSE SubSeq(h, 1, Len(h) - 1)

Init ==
    /\ variant \in Variants
    /\ writing \in BOOLEAN
    /\ scrollY \in (IF variant = "PdfWriter" THEN ScrollYs ELSE {0})
    /\ rectDims \in Rects
    /\ scrollPosition = 0
    /\ drawingPaths = <<>>
    /\ currentPath = <<>>
    /\ undoHistory = <<>>
    /\ redoHistory = <<>>
    /\ selectedColor = colors[1]
    /\ pathCoordinates = <<>>
    /\ rendered = Snapshot
    /\ trip = [stage |-> 0, before |-> <<>>, after |-> <<>>, hadRedo |-> FALSE,
               color |-> ""]

----------------------------------------------------------------------------
(* Event handlers.  Each leaves `rendered` and the observers to Next.      *)

HandleMouseDownKeepRedo(cx, cy) ==
    /\ UNCHANGED env
    /\ IF ~rendered.writing
       THEN UNCHANGED hooks
       ELSE LET p == TranslateDown(cx, cy) IN
            /\ currentPath' = <<MoveTo(p)>>
            /\ pathCoordinates' = <<p>>
            /\ UNCHANGED <<rectDims, scrollPosition, drawingPaths, undoHistory,
                           redoHistory, selectedColor>>

HandleMouseDownUngated(cx, cy) ==
    /\ UNCHANGED env
    /\ LET p == TranslateDown(cx, cy) IN
       /\ currentPath' = <<MoveTo(p)>>
       /\ redoHistory' = <<>>
       /\ pathCoordinates' = <<p>>
       /\ UNCHANGED <<rectDims, scrollPosition, drawingPaths, undoHistory,
                      selectedColor>>

HandleMouseDownKeepSamples(cx, cy) ==
    /\ UNCHANGED env
    /\ IF ~rendered.writing
       THEN UNCHANGED hooks
       ELSE LET p == TranslateDown(cx, cy) IN
            /\ currentPath' = <<MoveTo(p)>>
            /\ redoHistory' = <<>>
            /\ pathCoordinates' = Append(rendered.pathCoordinates, p)
            /\ UNCHANGED <<rectDims, scrollPosition, drawingPaths, undoHistory,
                           selectedColor>>

HandleMouseDown(cx, cy) ==
    /\ UNCHANGED env
    /\ IF ~rendered.writing
       THEN UNCHANGED hooks
       ELSE LET p == TranslateDown(cx, cy) IN
            /\ currentPath' = <<MoveTo(p)>>
            /\ redoHistory' = <<>>
            /\ pathCoordinates' = <<p>>
            /\ UNCHANGED <<rectDims, scrollPosition, drawingPaths, undoHistory,
                           selectedColor>>

HandleMouseMoveAnySession(cx, cy) ==
    /\ UNCHANGED env
    /\ scrollPosition' = IF variant = "PdfWriter" THEN scrollY ELSE scrollPosition
    /\ UNCHANGED <<rectDims, drawingPaths, undoHistory, redoHistory, selectedColor>>
    /\ IF InBounds(TranslateMove(cx, cy))
       THEN LET p   == TranslateMove(cx, cy)
                len == Len(rendered.pathCoordinates)
            IN  /\ pathCoordinates' = Append(rendered.pathCoordinates, p)
                /\ currentPath' =
                     IF len >= 3
                     THEN currentPath \o
                          <<bezierCommand(At(rendered.pathCoordinates, len - 1),
                                          len - 1, rendered.pathCoordinates)>>
                     ELSE currentPath
       ELSE UNCHANGED <<pathCoordinates, currentPath>>

HandleMouseMoveEarlyCurve(cx, cy) ==
    /\ UNCHANGED env
    /\ scrollPosition' = IF variant = "PdfWriter" THEN scrollY ELSE scrollPosition
    /\ UNCHANGED <<rectDims, drawingPaths, undoHistory, redoHistory, selectedColor>>
    /\ IF rendered.currentPath # <<>> /\ InBounds(TranslateMove(cx, cy))
       THEN LET p   == TranslateMove(cx, cy)
                len == Len(rendered.pathCoordinates)
            IN  /\ pathCoordinates' = Append(rendered.pathCoordinates, p)
                /\ currentPath' =
                     IF len >= 2
                     THEN currentPath \o
                          <<bezierCommand(At(rendered.pathCoordinates, len - 1),
                                          len - 1, rendered.pathCoordinates)>>
                     ELSE currentPath
       ELSE UNCHANGED <<pathCoordinates, currentPath>>

HandleMouseMove(cx, cy) ==
    /\ UNCHANGED env
    /\ scrollPosition' = IF variant = "PdfWriter" THEN scrollY ELSE scrollPosition
    /\ UNCHANGED <<rectDims, drawingPaths, undoHistory, redoHistory, selectedColor>>
    /\ IF rendered.currentPath # <<>> /\ InBounds(TranslateMove(cx, cy))
       THEN LET p   == TranslateMove(cx, cy)
                len == Len(rendered.pathCoordinates)
            IN  /\ pathCoordinates' = Append(rendered.pathCoordinates, p)
                /\ currentPath' =
                     IF len >= 3
                     THEN currentPath \o
                          <<bezierCommand(At(rendered.pathCoordinates, len - 1),
                                          len - 1, rendered.pathCoordinates)>>
                     ELSE currentPath
       ELSE UNCHANGED <<pathCoordinates, currentPath>>

\* the stroke handleMouseUp appends
NewStrokeFirstColor == [path |-> rendered.currentPath, color |-> ""]

NewStroke == [path |-> rendered.currentPath, color |-> rendered.selectedColor.code]

HandleMouseUpNoSnapshot ==
    /\ UNCHANGED env
    /\ IF rendered.currentPath # <<>>
       THEN /\ drawingPaths' = Append(drawingPaths, NewStroke)
            /\ currentPath' = <<>>
            /\ pathCoordinates' = <<>>
            /\ UNCHANGED <<rectDims, scrollPosition, undoHistory, redoHistory,
                           selectedColor>>
       ELSE UNCHANGED hooks

HandleMouseUpCapped ==
    /\ UNCHANGED env
    /\ IF rendered.currentPath # <<>>
       THEN /\ drawingPaths' = Append(drawingPaths, NewStroke)
            /\ undoHistory' =
                 IF undoHistory = <<>>
                 THEN <<rendered.drawingPaths>>
                 ELSE Append(Tail(undoHistory), rendered.drawingPaths)
            /\ currentPath' = <<>>
            /\ pathCoordinates' = <<>>
            /\ UNCHANGED <<rectDims, scrollPosition, redoHistory, selectedColor>>
       ELSE UNCHANGED hooks

HandleMouseUpSnapshotAfter ==
    /\ UNCHANGED env
    /\ IF rendered.currentPath # <<>>
       THEN /\ drawingPaths' = Append(drawingPaths, NewStroke)
            /\ undoHistory' = Append(undoHistory, Append(drawingPaths, NewStroke))
            /\ currentPath' = <<>>
            /\ pathCoordinates' = <<>>
            /\ UNCHANGED <<rectDims, scrollPosition, redoHistory, selectedColor>>
       ELSE UNCHANGED hooks

HandleMouseUpKeepSamples ==
    /\ UNCHANGED env
    /\ IF rendered.currentPath # <<>>
       THEN /\ drawingPaths' = Append(drawingPaths, NewStroke)
            /\ undoHistory' = Append(undoHistory, rendered.drawingPaths)
            /\ currentPath' = <<>>
            /\ UNCHANGED <<rectDims, scrollPosition, redoHistory, selectedColor,
                           pathCoordinates>>
       ELSE UNCHANGED hooks

HandleMouseUp ==
    /\ UNCHANGED env
    /\ IF rendered.currentPath # <<>>
       THEN /\ drawingPaths' = Append(drawingPaths, NewStroke)
            /\ undoHistory' = Append(undoHistory, rendered.drawingPaths)
            /\ currentPath' = <<>>
            /\ pathCoordinates' = <<>>
            /\ UNCHANGED <<rectDims, scrollPosition, redoHistory, selectedColor>>
       ELSE UNCHANGED hooks

HandleUndoUnguarded ==
    /\ UNCHANGED env
    /\ undoHistory' = SliceLast(undoHistory)
    /\ drawingPaths' = IF Len(rendered.undoHistory) > 0
                       THEN rendered.undoHistory[Len(rendered.undoHistory)]
                       ELSE drawingPaths
    /\ redoHistory' = Append(redoHistory, rendered.drawingPaths)
    /\ UNCHANGED <<rectDims, scrollPosition, currentPath, selectedColor,
                   pathCoordinates>>

HandleUndoDropCurrent ==
    /\ UNCHANGED env
    /\ IF Len(rendered.undoHistory) > 0
       THEN /\ undoHistory' = SliceLast(undoHistory)
            /\ drawingPaths' = rendered.undoHistory[Len(rendered.undoHistory)]
            /\ redoHistory' = Append(redoHistory, <<>>)
            /\ UNCHANGED <<rectDims, scrollPosition, currentPath, selectedColor,
                           pathCoordinates>>
       ELSE UNCHANGED hooks

HandleUndo ==
    /\ UNCHANGED env
    /\ IF Len(rendered.undoHistory) > 0
       THEN /\ undoHistory' = SliceLast(undoHistory)
            /\ drawingPaths' = rendered.undoHistory[Len(rendered.undoHistory)]
            /\ redoHistory' = Append(redoHistory, rendered.drawingPaths)
            /\ UNCHANGED <<rectDims, scrollPosition, currentPath, selectedColor,
                           pathCoordinates>>
       ELSE UNCHANGED hooks

HandleRedoKeepCurrent ==
    /\ UNCHANGED env
    /\ IF Len(rendered.redoHistory) > 0
       THEN /\ redoHistory' = SliceLast(redoHistory)
            /\ drawingPaths' = drawingPaths
            /\ undoHistory' = Append(undoHistory, rendered.drawingPaths)
            /\ UNCHANGED <<rectDims, scrollPosition, currentPath, selectedColor,
                           pathCoordinates>>
       ELSE UNCHANGED hooks

HandleRedo ==
    /\ UNCHANGED env
    /\ IF Len(rendered.redoHistory) > 0
       THEN /\ redoHistory' = SliceLast(redoHistory)
            /\ drawingPaths' = rendered.redoHistory[Len(rendered.redoHistory)]
            /\ undoHistory' = Append(undoHistory, rendered.drawingPaths)
            /\ UNCHANGED <<rectDims, scrollPosition, currentPath, selectedColor,
                           pathCoordinates>>
       ELSE UNCHANGED hooks

SetSelectedColor(item) ==
    /\ UNCHANGED env
    /\ selectedColor' = item
    /\ UNCHANGED <<rectDims, scrollPosition, drawingPaths, currentPath,
                   undoHistory, redoHistory, pathCoordinates>>

----------------------------------------------------------------------------
(* Surroundings *)

\* the parent re-renders the component with another `writing` prop
SetWriting(b) ==
    /\ writing' = b
    /\ UNCHANGED <<variant, scrollY>>
    /\ UNCHANGED hooks

----------------------------------------------------------------------------
(* Scheduling.  React re-renders at the end of every event it dispatches,  *)
(* so the next handler closes over the state its predecessor produced.     *)

Rerender == rendered' = Snapshot'

\* session states: Idle has no stroke in progress
Idle == currentPath = <<>>
Active == currentPath # <<>>

\* Observer of one stroke and what follows it.  trip.stage is 1 after a
\* pointer-down that starts a session from Idle, 2 after the pointer-up that
\* commits it, 3 after an undo that follows, 4 after a redo that follows, and
\* 5 after any other click on Undo or Redo inside a session.  before and
\* after are the stroke lists at that pointer-down and after that pointer-up;
\* hadRedo says whether the pointer-down found snapshots on Redo; color is
\* the colour that was selected at the pointer-down of the session in
\* progress or just committed ("" otherwise).
Observe(op) ==
    LET reset == [stage |-> 0, before |-> <<>>, after |-> <<>>,
                  hadRedo |-> FALSE,
                  color |-> IF currentPath' = <<>> THEN "" ELSE trip.color]
    IN
    trip' =
      CASE op = "down" ->
             IF writing
             THEN [stage   |-> IF Idle THEN 1 ELSE 0,
                   before  |-> IF Idle THEN drawingPaths ELSE <<>>,
                   after   |-> <<>>,
                   hadRedo |-> Idle /\ redoHistory # <<>>,
                   color   |-> selectedColor.code]
             ELSE reset
        [] op = "up" ->
             IF trip.stage = 1 /\ Len(drawingPaths') > Len(drawingPaths)
             THEN [trip EXCEPT !.stage = 2, !.after = drawingPaths',
                               !.hadRedo = FALSE]
             ELSE reset
        [] op = "undo" ->
             IF trip.stage = 2
             THEN [trip EXCEPT !.stage = 3, !.color = ""]
             ELSE [reset EXCEPT !.stage = IF Active THEN 5 ELSE 0]
        [] op = "redo" ->
             IF trip.stage = 3
             THEN [trip EXCEPT !.stage = 4]
             ELSE [reset EXCEPT !.stage = IF Active THEN 5 ELSE 0]
        [] OTHER -> trip

PointerDown(cx, cy) == HandleMouseDown(cx, cy) /\ Rerender /\ Observe("down")
PointerMove(cx, cy) == HandleMouseMove(cx, cy) /\ Rerender /\ Observe("move")
PointerUp == HandleMouseUp /\ Rerender /\ Observe("up")
ClickUndo == HandleUndo /\ Rerender /\ Observe("undo")
ClickRedo == HandleRedo /\ Rerender /\ Observe("redo")
ClickColor(item) == SetSelectedColor(item) /\ Rerender /\ Observe("color")
ParentRender(b) == SetWriting(b) /\ Rerender /\ Observe("writing")

NextB(maxPts, maxCommits, xs, items, flags) ==
    \/ \E cx \in xs, cy \in ClientYs : PointerDown(cx, cy)
    \/ \E cx \in xs, cy \in ClientYs :
          Len(pathCoordinates) < maxPts /\ PointerMove(cx, cy)
    \/ /\ Len(drawingPaths) < maxCommits
       /\ Len(undoHistory) + Len(redoHistory) < maxCommits
       /\ PointerUp
    \/ ClickUndo
    \/ ClickRedo
    \/ \E item \in items : ClickColor(item)
    \/ \E b \in flags : ParentRender(b)

\* history specification: short strokes, deep history
Next == NextB(HistPts, MaxCommits, HistXs, ColorInputs, BOOLEAN)
Spec == Init /\ [][Next]_vars

\* drawing specification: long strokes in one colour, at most one committed
\* stroke on the page, writing never switched off by the parent
NextDraw == NextB(MaxPts, 1, ClientXs, {colors[1]}, {TRUE})
SpecDraw == Init /\ [][NextDraw]_vars

\* asynchronous specification: mousedown, mouseup and click are discrete
\* events, React renders before the next event is handled; mousemove is a
\* continuous event whose render is scheduled for later, so further events
\* can be handled by the closures of the render before it.  Render is a
\* step of its own.  Short strokes, one colour, one committed stroke.
Render == UNCHANGED <<env, hooks, trip>> /\ Rerender

DeferredMove(cx, cy) == HandleMouseMove(cx, cy) /\ UNCHANGED <<rendered, trip>>

NextAsync ==
    \/ \E cx \in ClientXs, cy \in ClientYs : PointerDown(cx, cy)
    \/ \E cx \in ClientXs, cy \in ClientYs :
          /\ Len(rendered.pathCoordinates) < HistPts
          /\ DeferredMove(cx, cy)
    \/ /\ drawingPaths = <<>>
       /\ undoHistory = <<>>
       /\ redoHistory = <<>>
       /\ PointerUp
    \/ ClickUndo
    \/ ClickRedo
    \/ ParentRender(TRUE)
    \/ Render

SpecAsync == Init /\ [][NextAsync]_vars

\* history specification, undo and redo clicked between strokes only: the
\* runs in which no undo or redo reaches a session in progress
NextIdleHistory ==
    \/ \E cx \in HistXs, cy \in ClientYs : PointerDown(cx, cy)
    \/ \E cx \in HistXs, cy \in ClientYs :
          Len(pathCoordinates) < HistPts /\ PointerMove(cx, cy)
    \/ /\ Len(drawingPaths) < MaxCommits
       /\ Len(undoHistory) + Len(redoHistory) < MaxCommits
       /\ PointerUp
    \/ Idle /\ ClickUndo
    \/ Idle /\ ClickRedo
    \/ \E item \in ColorInputs : ClickColor(item)
    \/ \E b \in BOOLEAN : ParentRender(b)

SpecIdleHistory == Init /\ [][NextIdleHistory]_vars

----------------------------------------------------------------------------
(* Properties *)

Last(q) == q[Len(q)]
NumCurves(path) == Cardinality({k \in 1..Len(path) : path[k].op = "C"})
OutOfBounds(p) ==
    p[1] < 0 \/ p[2] < 0 \/ p[1] > offsetWidth \/ p[2] > offsetHeight
AnyDown == \E cx \in ClientXs, cy \in ClientYs : HandleMouseDown(cx, cy)

\* C1: round trip.  From an Idle state with stroke list S, after one complete
\* stroke (pointer-down with writing enabled, pointer-moves, pointer-up)
\* giving S', an undo makes the stroke list S again and a redo right after
\* that undo makes it S'.
C1_RoundTrip ==
    /\ trip.stage = 3 => drawingPaths = trip.before
    /\ trip.stage = 4 => drawingPaths = trip.after

\* a stroke was added to a non-empty list, undone and redone
C1_Witness ==
    /\ trip.stage = 4
    /\ trip.before # <<>>
    /\ Len(trip.after) = Len(trip.before) + 1

\* C2: every pointer-up that commits a stroke leaves the Redo stack empty,
\* whatever came before it, undo and redo between its pointer-down and the
\* pointer-up included.
C2_CommitClearsRedo ==
    [][(Active /\ HandleMouseUp) => redoHistory' = <<>>]_vars

\* C3: a pointer-down with writing enabled empties Redo whatever it held and
\* leaves the stroke list and the Undo stack as they were.
C3_DownClearsRedo ==
    [][(writing /\ AnyDown) =>
          (redoHistory' = <<>> /\ UNCHANGED <<drawingPaths, undoHistory>>)]_vars

\* a session was started while Redo held a snapshot, and Redo is empty now
C3_Witness ==
    /\ Len(pathCoordinates) = 1
    /\ redoHistory = <<>>
    /\ trip.stage = 1
    /\ trip.hadRedo
    /\ trip.before # <<>>

\* C4: pointer-up in an Active state with stroke list S, Undo stack U, path P
\* and colour c gives stroke list S ++ [{path: P, color: c}], Undo stack
\* U ++ [S], an empty path and an empty sample buffer; pointer-up with an
\* empty path changes nothing.
C4_PointerUpCommits ==
    [][HandleMouseUp =>
         IF Active
         THEN /\ drawingPaths' =
                   Append(drawingPaths,
                          [path |-> currentPath, color |-> selectedColor.code])
              /\ undoHistory' = Append(undoHistory, drawingPaths)
              /\ currentPath' = <<>>
              /\ pathCoordinates' = <<>>
         ELSE UNCHANGED hooks]_vars

\* a second stroke was committed: the snapshot pushed last is a one-stroke list
C4_Witness ==
    /\ trip.stage = 2
    /\ Len(drawingPaths) = 2
    /\ undoHistory # <<>>
    /\ Last(undoHistory) = trip.before
    /\ Len(trip.before) = 1

\* C5: with Undo = U ++ [P], undo gives stroke list P, Undo = U and
\* Redo = R ++ [L] for the stroke list L and Redo stack R it started from;
\* with Redo = R ++ [N], redo gives stroke list N, Redo = R and
\* Undo = U ++ [L].  Nothing else in either stack changes.
C5_UndoRedoMove ==
    [][/\ (HandleUndo /\ undoHistory # <<>>) =>
            /\ drawingPaths' = Last(undoHistory)
            /\ undoHistory' = SubSeq(undoHistory, 1, Len(undoHistory) - 1)
            /\ redoHistory' = Append(redoHistory, drawingPaths)
       /\ (HandleRedo /\ redoHistory # <<>>) =>
            /\ drawingPaths' = Last(redoHistory)
            /\ redoHistory' = SubSeq(redoHistory, 1, Len(redoHistory) - 1)
            /\ undoHistory' = Append(undoHistory, drawingPaths)]_vars

\* a redo moved a snapshot back while another one stayed below it
C5_Witness ==
    /\ trip.stage = 4
    /\ Len(undoHistory) = 2
    /\ redoHistory = <<>>
    /\ drawingPaths = trip.after

\* C6: undo with an empty Undo stack and redo with an empty Redo stack change
\* nothing: stroke list, both stacks, path, sample buffer and colour stay.
C6_EmptyHistoryNoOp ==
    [][((HandleUndo /\ undoHistory = <<>>) \/ (HandleRedo /\ redoHistory = <<>>))
         => UNCHANGED <<drawingPaths, undoHistory, redoHistory, currentPath,
                        pathCoordinates, selectedColor>>]_vars

\* Undo or Redo was clicked in an Active session and both stacks are empty:
\* an undo that moved a snapshot leaves Redo non-empty, a redo Undo
C6_Witness ==
    /\ Active
    /\ trip.stage = 5
    /\ undoHistory = <<>>
    /\ redoHistory = <<>>

\* C7: a session that fed n >= 3 in-bounds points has a path that starts with
\* one move command and holds exactly n - 2 curve commands.
C7_CurveCount ==
    Len(pathCoordinates) >= 3 =>
        /\ currentPath[1].op = "M"
        /\ NumCurves(currentPath) = Len(pathCoordinates) - 2

\* C8: every curve command a pointer-move appends ends at the point that
\* move delivered.
C8_CurveEndsAtNewest ==
    [][\A cx \in ClientXs, cy \in ClientYs :
          (HandleMouseMove(cx, cy) /\ Len(currentPath') > Len(currentPath)) =>
              /\ Last(currentPath').op = "C"
              /\ Last(currentPath').pt = TranslateMove(cx, cy)]_vars

\* C9: a pointer-move whose translated point lies outside the surface is
\* dropped: sample buffer, path, stroke list and both stacks stay, and an
\* Active session stays Active.
C9_OutOfBoundsDropped ==
    [][\A cx \in ClientXs, cy \in ClientYs :
          (HandleMouseMove(cx, cy) /\ OutOfBounds(TranslateMove(cx, cy))) =>
              /\ UNCHANGED <<pathCoordinates, currentPath, drawingPaths,
                             undoHistory, redoHistory>>
              /\ (Active => Active')]_vars

\* an Active session holding a curve while the pointer can leave the surface
C9_Witness ==
    /\ NumCurves(currentPath) >= 1
    /\ \E cx \in ClientXs, cy \in ClientYs : OutOfBounds(TranslateMove(cx, cy))

\* C10 as stated: the stroke a session commits has the colour that was
\* selected when the session started, whatever setColor did in between.
C10_ColorFixedAtDown ==
    [][(Active /\ HandleMouseUp /\ trip.color # "") =>
          Last(drawingPaths').color = trip.color]_vars

\* C10 amended: setColor changes no committed stroke, no snapshot, and not
\* the path or the samples of the stroke in progress; the stroke a session
\* commits has the path built so far and the colour selected at pointer-up.
C10_ColorAtPointerUp ==
    [][/\ (\E item \in Palette : SetSelectedColor(item)) =>
            UNCHANGED <<drawingPaths, undoHistory, redoHistory, currentPath,
                        pathCoordinates>>
       /\ (Active /\ HandleMouseUp) =>
            /\ Last(drawingPaths').color = selectedColor.code
            /\ Last(drawingPaths').path = currentPath]_vars

\* a stroke was committed in another colour than its session started with
C10_Witness ==
    /\ trip.stage = 2
    /\ drawingPaths = trip.after
    /\ Last(drawingPaths).color # trip.color
    /\ Last(drawingPaths).color = selectedColor.code

\* nothing drawn, nothing committed, no history: the state after mounting
Pristine ==
    /\ currentPath = <<>>
    /\ pathCoordinates = <<>>
    /\ drawingPaths = <<>>
    /\ undoHistory = <<>>
    /\ redoHistory = <<>>

\* C11: pointer-down is gated on the writing flag.  With writing disabled a
\* pointer-down changes no hook state (path, samples, Redo, Undo, stroke
\* list) and leaves an Idle session Idle; and the only step that takes the
\* component out of its pristine state (no session, no stroke, empty stacks)
\* is a pointer-down with writing enabled, so while every pointer-down finds
\* writing disabled no stroke is committed and Undo does not grow.
C11_WritingGate ==
    [][/\ (~writing /\ AnyDown) => (UNCHANGED hooks /\ (Idle => Idle'))
       /\ (Pristine /\ ~Pristine') => (writing /\ AnyDown)]_vars

\* writing is switched off over a page that has strokes and both stacks
\* filled: everything a pointer-down could clobber is there
C11_Witness ==
    /\ ~writing
    /\ Idle
    /\ drawingPaths # <<>>
    /\ undoHistory # <<>>
    /\ redoHistory # <<>>

AnyMove == \E cx \in ClientXs, cy \in ClientYs : HandleMouseMove(cx, cy)

\* C12 as stated: in an Idle state a pointer-move, in bounds or not, leaves
\* all state of the component unchanged.
C12_IdleMoveNoOp ==
    [][(Idle /\ AnyMove) => UNCHANGED hooks]_vars

\* C12 amended: in an Idle state a pointer-move, in bounds or not, starts no
\* session and leaves the path, the samples, the stroke list, both stacks,
\* the colour and the bounding box unchanged; the scroll-tracking copy still
\* stores the window scroll offset in scrollPosition.
C12_IdleMoveKeepsSession ==
    [][(Idle /\ AnyMove) =>
          /\ Idle'
          /\ UNCHANGED <<rectDims, drawingPaths, currentPath, undoHistory,
                         redoHistory, selectedColor, pathCoordinates>>
          /\ scrollPosition' \in {scrollPosition, scrollY}]_vars

\* the pointer moved over a scrolled page before anything was drawn
C12_Witness ==
    /\ Pristine
    /\ scrollPosition # 0

\* C13: pointer-down and pointer-move translate viewport coordinates the
\* same way: the local point a pointer-down stores for an event at (cx, cy)
\* is the local point a pointer-move at the same (cx, cy) would get, for
\* every bounding box and scroll offset, in either copy of the component.
C13_SameTranslation ==
    [][\A cx \in ClientXs, cy \in ClientYs :
          (writing /\ HandleMouseDown(cx, cy)) =>
              /\ TranslateDown(cx, cy) = TranslateMove(cx, cy)
              /\ pathCoordinates' = <<TranslateMove(cx, cy)>>]_vars

\* a capacity smaller than the number of commits the exploration allows
Capacity == MaxCommits - 1

\* C14 as stated: the history stacks are bounded, the depth of Undo and the
\* depth of Redo never exceed a fixed capacity, whatever commits, undos and
\* redos are made.
C14_BoundedStacks ==
    /\ Len(undoHistory) <= Capacity
    /\ Len(redoHistory) <= Capacity

\* C14 amended: the stacks have no capacity.  Every commit makes Undo one
\* deeper whatever its depth and leaves Redo alone; undo and redo keep the
\* total depth of the two stacks; Undo gets shallower only by an undo and
\* Redo only by a redo or by the pointer-down that clears it.
C14_NoCapacity ==
    [][/\ (Active /\ HandleMouseUp) =>
            /\ Len(undoHistory') = Len(undoHistory) + 1
            /\ redoHistory' = redoHistory
       /\ (HandleUndo \/ HandleRedo) =>
            Len(undoHistory') + Len(redoHistory') =
                Len(undoHistory) + Len(redoHistory)
       /\ Len(undoHistory') < Len(undoHistory) => HandleUndo
       /\ Len(redoHistory') < Len(redoHistory) =>
            (HandleRedo \/ (writing /\ AnyDown))]_vars

\* a second stroke was committed on top of a non-empty Undo stack
C14_Witness ==
    /\ Idle
    /\ Len(undoHistory) = 2
    /\ Len(drawingPaths) = 2
    /\ Len(undoHistory[2]) = 1

\* C15: no in-bounds sample is lost.  Whatever handlers ran since the last
\* render, a pointer-move delivered in bounds during an Active session puts
\* its sample at the end of the sample buffer and keeps every sample that
\* was there, so the buffer is always the pointer-down point followed by all
\* in-bounds samples in delivery order.
C15_NoSampleLost ==
    [][\A cx \in ClientXs, cy \in ClientYs :
          (Active /\ DeferredMove(cx, cy) /\ InBounds(TranslateMove(cx, cy)))
              => pathCoordinates' = Append(pathCoordinates, TranslateMove(cx, cy))]_vars

\* C16: the smoother is only called with its precondition met.  Whenever a
\* pointer-move appends a curve command, that command is the one built for
\* (point, index, sequence) with sequence the sample buffer the handler saw,
\* index >= 2 and index < length(sequence), point = sequence[index],
\* sequence[index-1] and sequence[index-2] defined; only sequence[index+1]
\* is undefined.
C16_SmootherPrecondition ==
    [][\A cx \in ClientXs, cy \in ClientYs :
          (HandleMouseMove(cx, cy) /\ Len(currentPath') > Len(currentPath)) =>
              LET sequence == pathCoordinates
                  index    == Len(sequence) - 1
              IN  /\ index >= 2
                  /\ index < Len(sequence)
                  /\ At(sequence, index - 1) # Undefined
                  /\ At(sequence, index - 2) # Undefined
                  /\ At(sequence, index + 1) = Undefined
                  /\ Last(currentPath') =
                        bezierCommand(At(sequence, index), index, sequence)]_vars

\* the fourth sample of a stroke has arrived and the first curve was built
C16_Witness ==
    /\ Len(pathCoordinates) = 4
    /\ Len(currentPath) = 2
    /\ currentPath[2].op = "C"
    /\ currentPath[2].pt = pathCoordinates[3]

Reverse(q) == [k \in 1..Len(q) |-> q[Len(q) + 1 - k]]
\* b is a with exactly one more stroke at the end
PrefixByOne(a, b) == Len(b) = Len(a) + 1 /\ SubSeq(b, 1, Len(a)) = a
HistoryChain == undoHistory \o <<drawingPaths>> \o Reverse(redoHistory)

\* C17: history chain.  When undo and redo are only clicked while Idle, the
\* snapshots of Undo, then the current stroke list, then the snapshots of
\* Redo from newest to oldest, are stroke lists of lengths 0, 1, 2, ...,
\* each the one before it plus one stroke; so the current list holds as
\* many strokes as Undo holds snapshots.
C17_HistoryChain ==
    /\ HistoryChain[1] = <<>>
    /\ \A k \in 1..(Len(HistoryChain) - 1) :
          PrefixByOne(HistoryChain[k], HistoryChain[k + 1])
    /\ Len(drawingPaths) = Len(undoHistory)

\* two strokes committed, the second undone: a chain of three lists with the
\* current one in the middle
C17_Witness ==
    /\ Idle
    /\ Len(undoHistory) = 1
    /\ Len(drawingPaths) = 1
    /\ Len(redoHistory) = 1
    /\ Len(redoHistory[1]) = 2

\* C18: session-state consistency.  In every reachable state the path of
\* the stroke in progress is empty exactly when the sample buffer is empty
\* (both empty: Idle, both non-empty: Active), and undo, redo and setColor
\* change neither of them.
C18_SessionConsistent ==
    /\ [](currentPath = <<>> <=> pathCoordinates = <<>>)
    /\ [][(HandleUndo \/ HandleRedo \/ \E item \in Palette : SetSelectedColor(item))
             => UNCHANGED <<currentPath, pathCoordinates>>]_vars

\* an undo that took effect inside a session of two samples
C18_Witness ==
    /\ Active
    /\ Len(pathCoordinates) = 2
    /\ trip.stage = 5
    /\ redoHistory # <<>>

PaletteCodes == {colors[k].code : k \in 1..Len(colors)}
\* a non-empty path: one move command, then curve commands only; a colour
\* of the palette
WellFormed(stroke) ==
    /\ stroke.path # <<>>
    /\ stroke.path[1].op = "M"
    /\ \A k \in 2..Len(stroke.path) : stroke.path[k].op = "C"
    /\ stroke.color \in PaletteCodes
AllWellFormed(list) == \A k \in 1..Len(list) : WellFormed(list[k])

\* C20: every committed stroke is well formed, in the current list and in
\* every snapshot of Undo and Redo: its path is one move command followed
\* by curve commands only and its colour is a palette colour.  A pointer-up
\* right after the pointer-down commits a stroke whose path is the move
\* command alone and pushes one snapshot on Undo.
C20_WellFormedStrokes ==
    /\ [](/\ AllWellFormed(drawingPaths)
          /\ \A k \in 1..Len(undoHistory) : AllWellFormed(undoHistory[k])
          /\ \A k \in 1..Len(redoHistory) : AllWellFormed(redoHistory[k]))
    /\ [][(Len(pathCoordinates) = 1 /\ HandleMouseUp) =>
             /\ Len(drawingPaths') = Len(drawingPaths) + 1
             /\ Last(drawingPaths').path = <<MoveTo(pathCoordinates[1])>>
             /\ Len(undoHistory') = Len(undoHistory) + 1]_vars

\* a stroke with a curve was committed and undone: it sits in a Redo
\* snapshot
C20_Witness ==
    /\ Idle
    /\ drawingPaths = <<>>
    /\ Len(redoHistory) = 1
    /\ Len(redoHistory[1]) = 1
    /\ NumCurves(redoHistory[1][1].path) >= 1

====
